---- MODULE Spec2Model ----
(***************************************************************************)
(* Connection-pool managers of terraform-oci: DatabaseConnection in        *)
(* src/db/connection.py and DatabasePool in examples/database_example.py.  *)
(*                                                                         *)
(* DatabaseConnection keeps two class attributes, _pool and _config, and   *)
(* DatabasePool keeps one, _pool; neither takes a lock.  Every thread that *)
(* calls into a module is a process with a program counter; one action is  *)
(* one access of a shared attribute or one call of the driver.  The        *)
(* cx_Oracle driver is the collaborator behind SessionPool(...), acquire,  *)
(* release and close: its outcomes (success or cx_Oracle.Error) are chosen *)
(* nondeterministically where the driver can fail, and follow its          *)
(* documented rules otherwise (getmode NOWAIT: acquire on an exhausted     *)
(* pool raises; close(force=False) raises while connections are checked    *)
(* out).                                                                   *)
(***************************************************************************)
EXTENDS Integers, FiniteSets, Sequences, TLC

\* ---- bounds of the model ----
NThreads == 2
MaxPools == 2
MaxConn == 1
\* close() calls counted per pool: MaxCloses stands for "MaxCloses or more"
MaxCloses == 2

Threads == 1..NThreads
PoolIds == 1..MaxPools
\* None, for a pool reference or a connection
None == 0

VARIABLES
    env,      \* os.environ: the variables DatabaseConfig reads
    held,     \* the DatabaseConfig objects the callers hold and can pass to
              \* initialize; the program never changes it
    pool,     \* DatabaseConnection._pool: None or the id of a SessionPool
    config,   \* DatabaseConnection._config: NoConfig or a DatabaseConfig
    xpool,    \* DatabasePool._pool of the example: None or the id of a pool
    pools,    \* the SessionPool objects constructed so far, by id
    th,       \* per thread: the call in progress, its locals, the number of
              \* debug status lines it printed, and its result
    twin      \* a second run of the program, kept beside the first to compare
              \* runs that differ in the debug flag (TwinSpec); unused elsewhere

vars == <<env, held, pool, config, xpool, pools, th, twin>>

\* ---- strings -------------------------------------------------------------
\* A string that is parsed (int, lower) is the sequence of its characters,
\* each character its Unicode code point; the others (user, password, DSN,
\* wallet path) are only tested for emptiness and stay whole.

\* the characters int() skips before and after a number: \t \n \v \f \r and
\* the space, and the white space beyond ASCII (U+0085, U+00A0, U+1680,
\* U+2000..U+200A, U+2028, U+2029, U+202F, U+205F, U+3000); the separators
\* U+001C..U+001F are not skipped
Blanks == (9..13) \cup {32, 133, 160, 5760} \cup (8192..8202)
          \cup {8232, 8233, 8239, 8287, 12288}

\* int() reads every decimal digit of Unicode: the digits of a script are ten
\* consecutive characters, and this is the first ("0") of each
DigitZeros == {
    48, 1632, 1776, 1984, 2406, 2534, 2662, 2790, 2918, 3046, 3174, 3302,
    3430, 3558, 3664, 3792, 3872, 4160, 4240, 6112, 6160, 6470, 6608,
    6784, 6800, 6992, 7088, 7232, 7248, 42528, 43216, 43264, 43472, 43504,
    43600, 44016, 65296, 66720, 68912, 69734, 69872, 69942, 70096, 70384,
    70736, 70864, 71248, 71360, 71472, 71904, 72016, 72784, 73040, 73120,
    92768, 92864, 93008, 120782, 120792, 120802, 120812, 120822, 123200,
    123632, 125264, 130032}

IsDigit(c) == \E z \in DigitZeros : c \in z..(z + 9)
DigitVal(c) == c - (CHOOSE z \in DigitZeros : c \in z..(z + 9))

\* the characters that str.lower() turns into the ASCII character c: c
\* itself unless it is a capital, the capital of a small letter, and the
\* Kelvin sign U+212A for "k"
LowersTo(c) == (IF c \in 65..90 THEN {} ELSE {c})
               \cup (IF c \in 97..122 THEN {c - 32} ELSE {})
               \cup (IF c = 107 THEN {8490} ELSE {})

\* s.lower() == w, for a word w of ASCII characters: str.lower() works
\* character by character, and no character gives more than one ASCII
\* character
LowerEq(s, w) == /\ Len(s) = Len(w)
                 /\ \A i \in DOMAIN s : s[i] \in LowersTo(w[i])

\* the white space int() drops around its argument
RECURSIVE Strip(_)
Strip(s) == IF s = <<>> THEN s
            ELSE IF Head(s) \in Blanks THEN Strip(Tail(s))
            ELSE IF s[Len(s)] \in Blanks THEN Strip(SubSeq(s, 1, Len(s) - 1))
            ELSE s

\* the value of a sequence of digits and single underscores (95) between them
RECURSIVE DigitsValue(_, _)
DigitsValue(s, acc) ==
    IF s = <<>> THEN acc
    ELSE IF Head(s) = 95 THEN DigitsValue(Tail(s), acc)
    ELSE DigitsValue(Tail(s), 10 * acc + DigitVal(Head(s)))

\* the limit of int() on the number of digits of its argument
\* (sys.int_info.default_max_str_digits); leading zeros count, underscores,
\* the sign and the white space do not
MaxStrDigits == 4300
NumDigits(s) == Cardinality({i \in DOMAIN s : s[i] # 95})

\* digits, with single underscores allowed between two digits
WellFormedDigits(s) ==
    /\ s # <<>>
    /\ IsDigit(s[1]) /\ IsDigit(s[Len(s)])
    /\ \A i \in DOMAIN s : IsDigit(s[i]) \/ s[i] = 95
    /\ \A i \in 1..(Len(s) - 1) : ~(s[i] = 95 /\ s[i + 1] = 95)

\* int(s): white space around, an optional sign ("+" 43, "-" 45), decimal
\* digits, no more than MaxStrDigits of them; anything else raises ValueError
IntOf(s) ==
    LET u == Strip(s)
        signed == u # <<>> /\ u[1] \in {43, 45}
        d == IF signed THEN Tail(u) ELSE u
    IN IF WellFormedDigits(d) /\ NumDigits(d) <= MaxStrDigits
       THEN [raises |-> FALSE,
             val |-> IF signed /\ u[1] = 45 THEN 0 - DigitsValue(d, 0)
                     ELSE DigitsValue(d, 0)]
       ELSE [raises |-> TRUE, val |-> 0]

\* str(n) of a natural number
RECURSIVE DigitStr(_)
DigitStr(n) == IF n < 10 THEN <<48 + n>>
               ELSE Append(DigitStr(n \div 10), 48 + (n % 10))

\* ---- DatabaseConfig ----------------------------------------------------
\* An environment variable is unset ({}) or holds one value ({v}).
Unset == {}

\* os.getenv(name, default)
Getenv(v, default) == IF v = Unset THEN default ELSE CHOOSE x \in v : TRUE

\* the environments considered: DB_USER and DB_DSN unset or empty, TNS_ADMIN
\* unset, empty or a directory, DB_PASSWORD unset or set, DB_MAX_CONNECTIONS
\* set to 1..MaxConn or to "abc", DB_MIN_CONNECTIONS "\f1" (a form feed, then
\* the digit) or "two", DB_CONNECTION_TIMEOUT unset or "1.5", DB_DEBUG unset
\* or "tRuE"
EnvValues == [user : {Unset, {""}}, password : {Unset, {"secret"}},
              dsn : {Unset, {""}}, wallet : {Unset, {""}, {"/w"}},
              min : {{<<12, 49>>}, {<<116, 119, 111>>}},
              max : {{DigitStr(n)} : n \in 1..MaxConn} \cup {{<<97, 98, 99>>}},
              timeout : {Unset, {<<49, 46, 53>>}},
              debug : {Unset, {<<116, 82, 117, 69>>}}]

\* a DatabaseConfig object; NoConfig stands for None
NoConfig == [user |-> "", password |-> "", dsn |-> "", wallet |-> "",
             min |-> 0, max |-> 0, timeout |-> 0, debug |-> FALSE]

\* what DatabaseConfig() gives when it raises
ValueError == [raises |-> "ValueError"]

\* mutation: the validation forgets the password
AllSetButPassword(c) == c.user # "" /\ c.dsn # "" /\ c.wallet # ""

\* the validation of DatabaseConfig.__init__: all([...]) of the four strings;
\* ValueError is raised when it is false
AllSet(c) == c.user # "" /\ c.password # "" /\ c.dsn # "" /\ c.wallet # ""

\* the home directory of the user who runs the program
Home == "/home/oracle"

\* os.path.expanduser('~/.oracle/wallet/ORCL'): the tilde gives way to the
\* home directory
DefaultWallet == Home \o "/.oracle/wallet/ORCL"

\* lines 13-16: the four strings; an unset DB_PASSWORD is None, which
\* all([...]) treats like ""
Attrs(e) ==
    [user |-> Getenv(e.user, "ADMIN"),
     password |-> Getenv(e.password, ""),
     dsn |-> Getenv(e.dsn, "ORCL_high"),
     wallet |-> Getenv(e.wallet, DefaultWallet)]

\* line 20: os.getenv('DB_DEBUG', 'false').lower() == 'true'
DebugOf(e) == LowerEq(Getenv(e.debug, <<102, 97, 108, 115, 101>>),
                      <<116, 114, 117, 101>>)

\* DatabaseConfig(): the attribute assignments, where int() raises ValueError
\* on a value that is no integer (lines 17-19), then the validation
DatabaseConfig(e) ==
    LET a == Attrs(e)
        \* the defaults '2', '5' and '60'
        mn == IntOf(Getenv(e.min, <<50>>))
        mx == IntOf(Getenv(e.max, <<53>>))
        to == IntOf(Getenv(e.timeout, <<54, 48>>))
    IN IF mn.raises \/ mx.raises \/ to.raises THEN ValueError
       ELSE IF ~AllSet(a) THEN ValueError
       ELSE [user |-> a.user, password |-> a.password, dsn |-> a.dsn,
             wallet |-> a.wallet, min |-> mn.val, max |-> mx.val,
             timeout |-> to.val, debug |-> DebugOf(e)]

\* the DatabaseConfig objects a caller can hold and pass to initialize, which
\* stores what it is given (line 37).  The attributes of an object can be
\* assigned after its construction, so an object need not pass the validation
\* of line 23 nor agree with the environment: the wallet directory is empty
\* or one that no environment of EnvValues names by default, the size of the
\* pool is one the environment gives or a larger one, the debug flag is on
\* or off.
ConfigObjects == [user : {"ADMIN"}, password : {"secret"}, dsn : {"ORCL_high"},
                  wallet : {"", "/w"},
                  min : {1}, max : 1..(MaxConn + 1), timeout : {60},
                  debug : BOOLEAN]

\* ---- SessionPool objects -------------------------------------------------
\* getmode: how acquire behaves on a pool with no free connection, "NOWAIT"
\* (raise at once), "WAIT" or "TIMEDWAIT" (wait, up to wait_timeout)
NoPool == [st |-> "none", max |-> 0, getmode |-> "none", out |-> 0,
           closes |-> 0]

\* st: "none" (no such object yet), "open" or "closed"
Constructed == {p \in PoolIds : pools[p].st # "none"}
Live == {p \in PoolIds : pools[p].st = "open"}
NextId == Cardinality(Constructed) + 1

CountClose(n) == IF n < MaxCloses THEN n + 1 ELSE n

RECURSIVE SumOut(_)
SumOut(S) == IF S = {} THEN 0
             ELSE LET p == CHOOSE x \in S : TRUE
                  IN pools[p].out + SumOut(S \ {p})
TotalOut == SumOut(PoolIds)

\* ---- threads -------------------------------------------------------------
\* cfg: the value of "config or DatabaseConfig()" once it is evaluated, the
\* config argument before; wal: the wallet_location read for line 42; lp: the
\* pool object a call holds in hand (the value of get_pool(), of the
\* constructor or of cls._pool); arg: the max= argument of the constructor
IdleThread == [op |-> "none", pc |-> "idle", cfg |-> NoConfig, wal |-> "",
               phase |-> "none", lp |-> None, conn |-> None, pend |-> "none", val |-> 0,
               arg |-> 0, acqs |-> 0, rels |-> 0, lines |-> 0,
               ret |-> [kind |-> "none", val |-> 0]]

\* no second run
NoTwin == [turn |-> "off"]

\* the state after import: the class attributes None, no pool constructed
Start(envs, objects) ==
    /\ env \in envs
    /\ held = objects
    /\ pool = None
    /\ config = NoConfig
    /\ xpool = None
    /\ pools = [p \in PoolIds |-> NoPool]
    /\ th = [t \in Threads |-> IdleThread]

\* the objects whose pool is no larger than the environment's, with the debug
\* flag off or with any
SmallObjects == {c \in ConfigObjects : c.max <= MaxConn}
QuietObjects == {c \in SmallObjects : ~c.debug}

\* several threads: DB_PASSWORD varies, the other variables are unset or hold
\* a number; the callers hold the objects without the debug flag
Init == /\ Start({e \in EnvValues :
                    /\ e.user = Unset /\ e.dsn = Unset /\ e.wallet = Unset
                    /\ e.timeout = Unset /\ e.debug = Unset
                    /\ ~IntOf(Getenv(e.min, <<>>)).raises
                    /\ ~IntOf(Getenv(e.max, <<>>)).raises},
                 QuietObjects)
        /\ twin = NoTwin

\* one caller: every environment of EnvValues, every object of ConfigObjects
SeqInit == Start(EnvValues, ConfigObjects) /\ twin = NoTwin

\* one caller of both modules: every environment, the objects that name a
\* wallet directory
BothInit == /\ Start(EnvValues, {c \in SmallObjects : c.wallet # ""})
            /\ twin = NoTwin

\* the call returns (kind "ok") or raises (kind = the exception) to its caller
Finish(r, kind, val) ==
    [r EXCEPT !.pc = "idle", !.cfg = NoConfig, !.wal = "", !.phase = "none",
              !.lp = None,
              !.pend = "none", !.val = 0, !.arg = 0,
              !.ret = [kind |-> kind, val |-> val]]

\* mutation: test_connection has no except clause
ThrowUncaught(r, exc) == Finish(r, exc, 0)

\* an exception leaves the call in progress; test_connection catches every
\* Exception and returns False (val 0)
Throw(r, exc) ==
    IF r.op = "test_connection" THEN Finish(r, "ok", 0) ELSE Finish(r, exc, 0)

\* a thread that is in no call enters one: its locals are fresh
Begin(op, c) ==
    [IdleThread EXCEPT !.op = op, !.cfg = c,
        !.phase = IF op \in {"get_connection", "test_connection"}
                  THEN "acq" ELSE "none",
        !.pc = CASE op = "initialize" -> "i_check"
                 [] op = "close" -> "c_check"
                 [] OTHER -> "g_check"]

\* ---- the driver ------------------------------------------------------------
\* cx_Oracle.SessionPool(..., max=th[t].arg, ...): a new pool object, which
\* the caller holds in hand at pc next, or cx_Oracle.Error, raised as exc;
\* past MaxPools only the failure is followed.  Neither module passes
\* getmode= or wait_timeout=, so the pool has the driver's default get mode,
\* SPOOL_ATTRVAL_NOWAIT; timeout= is the time after which the driver ends an
\* idle session, and plays no part in acquire.
Construct(t, next, exc) ==
    \/ /\ NextId <= MaxPools
       /\ pools' = [pools EXCEPT ![NextId] =
                       [st |-> "open", max |-> th[t].arg,
                        getmode |-> "NOWAIT", out |-> 0, closes |-> 0]]
       /\ th' = [th EXCEPT ![t].pc = next, ![t].lp = NextId]
    \/ /\ th' = [th EXCEPT ![t] = Throw(@, exc)]
       /\ UNCHANGED pools

\* <pool in hand>.acquire(): on None the attribute lookup raises; the driver
\* gives a connection of an open pool that has one free, and raises otherwise,
\* at once, as the get mode is "NOWAIT" (and may raise in any case)
AcquireOf(t, next) ==
    LET p == th[t].lp IN
    \/ /\ p = None
       /\ th' = [th EXCEPT ![t] = Throw(@, "AttributeError")]
       /\ UNCHANGED pools
    \/ /\ p # None
       /\ pools[p].st = "open"
       /\ pools[p].out < pools[p].max
       /\ pools' = [pools EXCEPT ![p].out = @ + 1]
       /\ th' = [th EXCEPT ![t].pc = next, ![t].conn = p, ![t].acqs = 1]
    \/ /\ p # None
       /\ th' = [th EXCEPT ![t] = Throw(@, "DatabaseError")]
       /\ UNCHANGED pools

\* <pool in hand>.release(connection), then the exit of the finally block:
\* the pending exception is re-raised, or the call returns.  The driver
\* returns the connection to the pool it was acquired from.
ReleaseOf(t) ==
    IF th[t].lp = None
    THEN /\ th' = [th EXCEPT ![t] = Throw(@, "AttributeError")]
         /\ UNCHANGED pools
    ELSE /\ pools' = [pools EXCEPT ![th[t].conn].out = @ - 1]
         /\ th' = [th EXCEPT ![t] =
                     LET r == [@ EXCEPT !.conn = None, !.rels = @ + 1]
                     IN IF r.pend # "none" THEN Throw(r, r.pend)
                        ELSE Finish(r, "ok", r.val)]

\* <pool in hand>.close(): the call is counted; the driver raises on a pool
\* that is closed already or has connections checked out
CloseOf(t, next) ==
    LET p == th[t].lp IN
    IF pools[p].st = "closed" \/ pools[p].out > 0
    THEN /\ th' = [th EXCEPT ![t] = Throw(@, "DatabaseError")]
         /\ pools' = [pools EXCEPT ![p].closes = CountClose(@)]
    ELSE /\ th' = [th EXCEPT ![t].pc = next]
         /\ pools' = [pools EXCEPT ![p].st = "closed",
                                   ![p].closes = CountClose(@)]

\* ---- src/db/connection.py ----------------------------------------------
\* what an action of this module leaves alone besides the class attributes
Others == <<held, xpool, twin>>

\* DatabaseConnection.initialize(config) and DatabaseConnection.initialize()
StartInitialize(t) ==
    /\ th[t].pc = "idle"
    /\ \E c \in held \cup {NoConfig} :
         th' = [th EXCEPT ![t] = Begin("initialize", c)]
    /\ UNCHANGED <<env, pool, config, pools, Others>>

\* DatabaseConnection.get_pool()
StartGetPool(t) ==
    /\ th[t].pc = "idle"
    /\ th' = [th EXCEPT ![t] = Begin("get_pool", NoConfig)]
    /\ UNCHANGED <<env, pool, config, pools, Others>>

\* DatabaseConnection.close()
StartClose(t) ==
    /\ th[t].pc = "idle"
    /\ th' = [th EXCEPT ![t] = Begin("close", NoConfig)]
    /\ UNCHANGED <<env, pool, config, pools, Others>>

\* with get_connection() as connection: <unit of work>
StartGetConnection(t) ==
    /\ th[t].pc = "idle"
    /\ th' = [th EXCEPT ![t] = Begin("get_connection", NoConfig)]
    /\ UNCHANGED <<env, pool, config, pools, Others>>

\* test_connection()
StartTestConnection(t) ==
    /\ th[t].pc = "idle"
    /\ th' = [th EXCEPT ![t] = Begin("test_connection", NoConfig)]
    /\ UNCHANGED <<env, pool, config, pools, Others>>

\* the normal return of initialize, to its caller
InitReturn(r) ==
    IF r.op = "initialize" THEN Finish(r, "ok", 0)
    ELSE [r EXCEPT !.pc = "g_ret", !.lp = None, !.arg = 0]

\* mutation: initialize without the early return of line 34
ICheckNoReturn(t) ==
    /\ th[t].pc = "i_check"
    /\ th' = [th EXCEPT ![t].pc = "i_load"]
    /\ UNCHANGED <<env, pool, config, pools, Others>>

\* mutation: the configuration passed in is stored before the test of line 34
ICheckStoresConfig(t) ==
    /\ th[t].pc = "i_check"
    /\ config' = IF th[t].cfg # NoConfig THEN th[t].cfg ELSE config
    /\ th' = [th EXCEPT ![t] = IF pool # None THEN InitReturn(@)
                               ELSE [@ EXCEPT !.pc = "i_load"]]
    /\ UNCHANGED <<env, pool, pools, Others>>

\* initialize, line 34: if cls._pool is not None: return
ICheck(t) ==
    /\ th[t].pc = "i_check"
    /\ th' = [th EXCEPT ![t] = IF pool # None THEN InitReturn(@)
                               ELSE [@ EXCEPT !.pc = "i_load"]]
    /\ UNCHANGED <<env, pool, config, pools, Others>>

\* initialize, line 37, the right-hand side: config or DatabaseConfig().  A
\* config that was passed in is the value; otherwise DatabaseConfig() reads
\* the environment (lines 13-20; TNS_ADMIN, at line 16, is the one variable
\* another thread writes) and gives the object or raises ValueError.
ILoad(t) ==
    /\ th[t].pc = "i_load"
    /\ LET c == IF th[t].cfg # NoConfig THEN th[t].cfg ELSE DatabaseConfig(env)
       IN th' = [th EXCEPT ![t] = IF c = ValueError THEN Throw(@, "ValueError")
                                  ELSE [@ EXCEPT !.pc = "i_config", !.cfg = c]]
    /\ UNCHANGED <<env, pool, config, pools, Others>>

\* initialize, line 37, the assignment: cls._config = <that value>
IConfig(t) ==
    /\ th[t].pc = "i_config"
    /\ config' = th[t].cfg
    /\ th' = [th EXCEPT ![t].pc = "i_wallet"]
    /\ UNCHANGED <<env, pool, pools, Others>>

\* initialize, line 41: if cls._config.wallet_location:
IWallet(t) ==
    /\ th[t].pc = "i_wallet"
    /\ th' = [th EXCEPT ![t].pc = IF config.wallet # "" THEN "i_tns_read"
                                  ELSE "i_args"]
    /\ UNCHANGED <<env, pool, config, pools, Others>>

\* initialize, line 42, the right-hand side: cls._config.wallet_location
ITnsRead(t) ==
    /\ th[t].pc = "i_tns_read"
    /\ th' = [th EXCEPT ![t].pc = "i_tns", ![t].wal = config.wallet]
    /\ UNCHANGED <<env, pool, config, pools, Others>>

\* initialize, line 42, the assignment: os.environ['TNS_ADMIN'] = <that value>
ITns(t) ==
    /\ th[t].pc = "i_tns"
    /\ env' = [env EXCEPT !.wallet = {th[t].wal}]
    /\ th' = [th EXCEPT ![t].pc = "i_args", ![t].wal = ""]
    /\ UNCHANGED <<pool, config, pools, Others>>

\* initialize, lines 46-53: the arguments of the constructor are read from
\* cls._config as it is now; max= (line 50) is the one the pool object keeps
IArgs(t) ==
    /\ th[t].pc = "i_args"
    /\ th' = [th EXCEPT ![t].pc = "i_new", ![t].arg = config.max]
    /\ UNCHANGED <<env, pool, config, pools, Others>>

\* mutation: the pool reference is assigned before the driver's constructor
\* has succeeded, and stays assigned when it raises
INewAssignsFirst(t) ==
    /\ th[t].pc = "i_new"
    /\ NextId <= MaxPools
    /\ pool' = NextId
    /\ \/ /\ pools' = [pools EXCEPT ![NextId] =
                          [st |-> "open", max |-> th[t].arg,
                           getmode |-> "NOWAIT", out |-> 0, closes |-> 0]]
          /\ th' = [th EXCEPT ![t].pc = "i_store", ![t].lp = NextId]
       \/ /\ pools' = [pools EXCEPT ![NextId] =
                          [st |-> "closed", max |-> th[t].arg,
                           getmode |-> "NOWAIT", out |-> 0, closes |-> 0]]
          /\ th' = [th EXCEPT ![t] = Throw(@, "ConnectionError")]
    /\ UNCHANGED <<env, config, Others>>

\* initialize, line 45 (the call) and lines 60-61: the driver constructs the
\* pool or raises cx_Oracle.Error, which becomes ConnectionError
INew(t) ==
    /\ th[t].pc = "i_new"
    /\ Construct(t, "i_store", "ConnectionError")
    /\ UNCHANGED <<env, pool, config, Others>>

\* initialize, line 45 (the assignment): cls._pool = <the new pool>
IStore(t) ==
    /\ th[t].pc = "i_store"
    /\ pool' = th[t].lp
    /\ th' = [th EXCEPT ![t].pc = "i_debug"]
    /\ UNCHANGED <<env, config, pools, Others>>

\* initialize, lines 56-58: the status line, if cls._config.debug is set now
IDebug(t) ==
    /\ th[t].pc = "i_debug"
    /\ th' = [th EXCEPT ![t] =
                InitReturn([@ EXCEPT !.lines = IF config.debug THEN @ + 1
                                               ELSE @])]
    /\ UNCHANGED <<env, pool, config, pools, Others>>

\* get_pool, lines 66-67: if cls._pool is None: cls.initialize()
GCheck(t) ==
    /\ th[t].pc = "g_check"
    /\ th' = [th EXCEPT ![t] = IF pool = None
                               THEN [@ EXCEPT !.pc = "i_check", !.cfg = NoConfig]
                               ELSE [@ EXCEPT !.pc = "g_ret"]]
    /\ UNCHANGED <<env, pool, config, pools, Others>>

\* get_pool, line 68: return cls._pool, to the caller of get_pool
GRet(t) ==
    /\ th[t].pc = "g_ret"
    /\ th' = [th EXCEPT ![t] =
                CASE @.phase = "acq" -> [@ EXCEPT !.pc = "acquire", !.lp = pool]
                  [] @.phase = "rel" -> [@ EXCEPT !.pc = "release", !.lp = pool]
                  [] OTHER -> Finish(@, "ok", pool)]
    /\ UNCHANGED <<env, pool, config, pools, Others>>

\* mutation: the finally block releases without the test of line 87, so a
\* failed acquire goes on to the release of line 88
AcquireThenAlwaysRelease(t) ==
    /\ th[t].pc = "acquire"
    /\ LET p == th[t].lp IN
       \/ /\ p = None
          /\ th' = [th EXCEPT ![t] = Throw(@, "AttributeError")]
          /\ UNCHANGED pools
       \/ /\ p # None
          /\ pools[p].st = "open"
          /\ pools[p].out < pools[p].max
          /\ pools' = [pools EXCEPT ![p].out = @ + 1]
          /\ th' = [th EXCEPT ![t].pc = "body", ![t].conn = p, ![t].acqs = 1]
       \/ /\ p # None
          /\ th' = [th EXCEPT ![t] = [@ EXCEPT !.pc = "release",
                                               !.pend = "DatabaseError"]]
          /\ UNCHANGED pools
    /\ UNCHANGED <<env, pool, config, Others>>

\* get_connection, line 84: connection = <pool>.acquire()
Acquire(t) ==
    /\ th[t].pc = "acquire"
    /\ AcquireOf(t, "body")
    /\ UNCHANGED <<env, pool, config, Others>>

\* the unit of work at the yield of line 85.  For get_connection it ends
\* without an exception (by running to its end or by an early return: both
\* resume the generator after the yield) or it raises; for test_connection
\* (lines 101-104) the query raises, yields no row, or yields a row whose
\* first column is 1 or not.  The finally block then tests connection (line
\* 87, set here) and calls get_pool().
Body(t) ==
    /\ th[t].pc = "body"
    /\ \E how \in IF th[t].op = "test_connection"
                  THEN {"one", "other", "norow", "error"}
                  ELSE {"normal", "raise"} :
         th' = [th EXCEPT ![t] =
                  [@ EXCEPT !.pc = "g_check", !.phase = "rel", !.lp = None,
                            !.val = IF how = "one" THEN 1 ELSE 0,
                            !.pend = CASE how = "raise" -> "BodyError"
                                       [] how = "error" -> "DatabaseError"
                                       [] how = "norow" -> "TypeError"
                                       [] OTHER -> "none"]]
    /\ UNCHANGED <<env, pool, config, pools, Others>>

\* mutation: the release is written after the yield instead of in a finally
\* block, so an exception of the unit of work skips it
ReleaseUnlessRaised(t) ==
    /\ th[t].pc = "release"
    /\ IF th[t].lp = None \/ th[t].pend # "none"
       THEN /\ th' = [th EXCEPT ![t] =
                        Throw(@, IF @.pend # "none" THEN @.pend
                                 ELSE "AttributeError")]
            /\ UNCHANGED pools
       ELSE /\ pools' = [pools EXCEPT ![th[t].conn].out = @ - 1]
            /\ th' = [th EXCEPT ![t] =
                        Finish([@ EXCEPT !.conn = None, !.rels = @ + 1],
                               "ok", @.val)]
    /\ UNCHANGED <<env, pool, config, Others>>

\* get_connection, line 88: <pool>.release(connection), then the exit of the
\* finally block
Release(t) ==
    /\ th[t].pc = "release"
    /\ ReleaseOf(t)
    /\ UNCHANGED <<env, pool, config, Others>>

\* mutation: close without the test of line 73
CCheckUnguarded(t) ==
    /\ th[t].pc = "c_check"
    /\ th' = [th EXCEPT ![t].pc = "c_read"]
    /\ UNCHANGED <<env, pool, config, pools, Others>>

\* close, line 73: if cls._pool is not None
CCheck(t) ==
    /\ th[t].pc = "c_check"
    /\ th' = [th EXCEPT ![t] = IF pool # None THEN [@ EXCEPT !.pc = "c_read"]
                               ELSE Finish(@, "ok", 0)]
    /\ UNCHANGED <<env, pool, config, pools, Others>>

\* close, line 74 (the attribute): cls._pool is read again, and .close looked
\* up on it, which raises AttributeError on None
CRead(t) ==
    /\ th[t].pc = "c_read"
    /\ th' = [th EXCEPT ![t] = IF pool = None THEN Throw(@, "AttributeError")
                               ELSE [@ EXCEPT !.pc = "c_close", !.lp = pool]]
    /\ UNCHANGED <<env, pool, config, pools, Others>>

\* mutation: close drops the reference without closing the driver's pool
CCloseSkipsDriver(t) ==
    /\ th[t].pc = "c_close"
    /\ th' = [th EXCEPT ![t].pc = "c_reset"]
    /\ UNCHANGED <<env, pool, config, pools, Others>>

\* mutation: the pool is closed with force=True, checked-out connections or not
CCloseForce(t) ==
    /\ th[t].pc = "c_close"
    /\ LET p == th[t].lp IN
       IF pools[p].st = "closed"
       THEN /\ th' = [th EXCEPT ![t] = Throw(@, "DatabaseError")]
            /\ pools' = [pools EXCEPT ![p].closes = CountClose(@)]
       ELSE /\ th' = [th EXCEPT ![t].pc = "c_reset"]
            /\ pools' = [pools EXCEPT ![p].st = "closed",
                                      ![p].closes = CountClose(@)]
    /\ UNCHANGED <<env, pool, config, Others>>

\* close, line 74 (the call): <the pool read>.close()
CClose(t) ==
    /\ th[t].pc = "c_close"
    /\ CloseOf(t, "c_reset")
    /\ UNCHANGED <<env, pool, config, Others>>

\* mutation: close without the assignment of line 75
CResetKeepsPool(t) ==
    /\ th[t].pc = "c_reset"
    /\ th' = [th EXCEPT ![t].pc = "c_debug"]
    /\ UNCHANGED <<env, pool, config, pools, Others>>

\* mutation: close also forgets the stored configuration
CResetClearsConfig(t) ==
    /\ th[t].pc = "c_reset"
    /\ pool' = None
    /\ config' = NoConfig
    /\ th' = [th EXCEPT ![t].pc = "c_debug"]
    /\ UNCHANGED <<env, pools, Others>>

\* mutation: with debug on, close keeps the pool reference
CResetQuietOnly(t) ==
    /\ th[t].pc = "c_reset"
    /\ pool' = IF config # NoConfig /\ config.debug THEN pool ELSE None
    /\ th' = [th EXCEPT ![t].pc = "c_debug"]
    /\ UNCHANGED <<env, config, pools, Others>>

\* close, line 75: cls._pool = None
CReset(t) ==
    /\ th[t].pc = "c_reset"
    /\ pool' = None
    /\ th' = [th EXCEPT ![t].pc = "c_debug"]
    /\ UNCHANGED <<env, config, pools, Others>>

\* close, lines 76-77: the status line, if cls._config is set and its debug
\* flag is set now
CDebug(t) ==
    /\ th[t].pc = "c_debug"
    /\ th' = [th EXCEPT ![t] =
                Finish([@ EXCEPT !.lines = IF config # NoConfig /\ config.debug
                                           THEN @ + 1 ELSE @], "ok", 0)]
    /\ UNCHANGED <<env, pool, config, pools, Others>>

Step(t) ==
    \/ StartInitialize(t)
    \/ StartGetPool(t)
    \/ StartClose(t)
    \/ StartGetConnection(t)
    \/ StartTestConnection(t)
    \/ ICheck(t)
    \/ ILoad(t)
    \/ IConfig(t)
    \/ IWallet(t)
    \/ ITnsRead(t)
    \/ ITns(t)
    \/ IArgs(t)
    \/ INew(t)
    \/ IStore(t)
    \/ IDebug(t)
    \/ GCheck(t)
    \/ GRet(t)
    \/ Acquire(t)
    \/ Body(t)
    \/ Release(t)
    \/ CCheck(t)
    \/ CRead(t)
    \/ CClose(t)
    \/ CReset(t)
    \/ CDebug(t)

\* ---- examples/database_example.py ----------------------------------------
\* what an action of the example leaves alone besides DatabasePool._pool
Rest == <<env, held, pool, config, twin>>

\* the default of max_connections (line 21)
DefaultMax == 5

\* a thread enters a call of the example
XBegin(op, m) ==
    [IdleThread EXCEPT !.op = op, !.arg = m,
        !.phase = IF op = "x_get_connection" THEN "acq" ELSE "none",
        !.pc = CASE op = "x_initialize" -> "x_check"
                 [] op = "x_close" -> "xc_check"
                 [] OTHER -> "xg_check"]

\* DatabasePool.initialize(max_connections=m) and DatabasePool.initialize()
XStartInitialize(t) ==
    /\ th[t].pc = "idle"
    /\ \E m \in (1..MaxConn) \cup {DefaultMax} :
         th' = [th EXCEPT ![t] = XBegin("x_initialize", m)]
    /\ UNCHANGED <<xpool, pools, Rest>>

\* DatabasePool.get_pool()
XStartGetPool(t) ==
    /\ th[t].pc = "idle"
    /\ th' = [th EXCEPT ![t] = XBegin("x_get_pool", 0)]
    /\ UNCHANGED <<xpool, pools, Rest>>

\* DatabasePool.close()
XStartClose(t) ==
    /\ th[t].pc = "idle"
    /\ th' = [th EXCEPT ![t] = XBegin("x_close", 0)]
    /\ UNCHANGED <<xpool, pools, Rest>>

\* with get_connection() as connection: <unit of work>, of the example
XStartGetConnection(t) ==
    /\ th[t].pc = "idle"
    /\ th' = [th EXCEPT ![t] = XBegin("x_get_connection", 0)]
    /\ UNCHANGED <<xpool, pools, Rest>>

\* initialize, line 22: if cls._pool is None
XCheck(t) ==
    /\ th[t].pc = "x_check"
    /\ th' = [th EXCEPT ![t].pc = IF xpool = None THEN "x_new" ELSE "x_ret"]
    /\ UNCHANGED <<xpool, pools, Rest>>

\* initialize, lines 23-32 (the call): the driver constructs the pool or
\* raises cx_Oracle.DatabaseError, which nothing catches
XNew(t) ==
    /\ th[t].pc = "x_new"
    /\ Construct(t, "x_store", "DatabaseError")
    /\ UNCHANGED <<xpool, Rest>>

\* initialize, line 23 (the assignment): cls._pool = <the new pool>
XStore(t) ==
    /\ th[t].pc = "x_store"
    /\ xpool' = th[t].lp
    /\ th' = [th EXCEPT ![t].pc = "x_ret"]
    /\ UNCHANGED <<pools, Rest>>

\* initialize, line 33: return cls._pool; get_pool drops the value
XRet(t) ==
    /\ th[t].pc = "x_ret"
    /\ th' = [th EXCEPT ![t] =
                IF @.op = "x_initialize" THEN Finish(@, "ok", xpool)
                ELSE [@ EXCEPT !.pc = "xg_ret", !.lp = None, !.arg = 0]]
    /\ UNCHANGED <<xpool, pools, Rest>>

\* get_pool, lines 37-38: if cls._pool is None: cls.initialize()
XGCheck(t) ==
    /\ th[t].pc = "xg_check"
    /\ th' = [th EXCEPT ![t] = IF xpool = None
                               THEN [@ EXCEPT !.pc = "x_check",
                                              !.arg = DefaultMax]
                               ELSE [@ EXCEPT !.pc = "xg_ret"]]
    /\ UNCHANGED <<xpool, pools, Rest>>

\* get_pool, line 39: return cls._pool
XGRet(t) ==
    /\ th[t].pc = "xg_ret"
    /\ th' = [th EXCEPT ![t] =
                CASE @.phase = "acq" -> [@ EXCEPT !.pc = "x_acquire", !.lp = xpool]
                  [] @.phase = "rel" -> [@ EXCEPT !.pc = "x_release", !.lp = xpool]
                  [] OTHER -> Finish(@, "ok", xpool)]
    /\ UNCHANGED <<xpool, pools, Rest>>

\* get_connection, line 50: connection = <pool>.acquire(), before the try
XAcquire(t) ==
    /\ th[t].pc = "x_acquire"
    /\ AcquireOf(t, "x_body")
    /\ UNCHANGED <<xpool, Rest>>

\* the unit of work at the yield of line 52: it ends or it raises, and the
\* finally block calls get_pool()
XBody(t) ==
    /\ th[t].pc = "x_body"
    /\ \E how \in {"normal", "raise"} :
         th' = [th EXCEPT ![t] =
                  [@ EXCEPT !.pc = "xg_check", !.phase = "rel", !.lp = None,
                            !.pend = IF how = "raise" THEN "BodyError"
                                     ELSE "none"]]
    /\ UNCHANGED <<xpool, pools, Rest>>

\* get_connection, line 54: <pool>.release(connection)
XRelease(t) ==
    /\ th[t].pc = "x_release"
    /\ ReleaseOf(t)
    /\ UNCHANGED <<xpool, Rest>>

\* close, line 43: if cls._pool is not None
XCCheck(t) ==
    /\ th[t].pc = "xc_check"
    /\ th' = [th EXCEPT ![t] = IF xpool # None THEN [@ EXCEPT !.pc = "xc_read"]
                               ELSE Finish(@, "ok", 0)]
    /\ UNCHANGED <<xpool, pools, Rest>>

\* close, line 44 (the attribute): cls._pool is read again
XCRead(t) ==
    /\ th[t].pc = "xc_read"
    /\ th' = [th EXCEPT ![t] = IF xpool = None THEN Throw(@, "AttributeError")
                               ELSE [@ EXCEPT !.pc = "xc_close", !.lp = xpool]]
    /\ UNCHANGED <<xpool, pools, Rest>>

\* close, line 44 (the call): <the pool read>.close()
XCClose(t) ==
    /\ th[t].pc = "xc_close"
    /\ CloseOf(t, "xc_reset")
    /\ UNCHANGED <<xpool, Rest>>

\* close, line 45: cls._pool = None
XCReset(t) ==
    /\ th[t].pc = "xc_reset"
    /\ xpool' = None
    /\ th' = [th EXCEPT ![t] = Finish(@, "ok", 0)]
    /\ UNCHANGED <<pools, Rest>>

XStep(t) ==
    \/ XStartInitialize(t)
    \/ XStartGetPool(t)
    \/ XStartClose(t)
    \/ XStartGetConnection(t)
    \/ XCheck(t)
    \/ XNew(t)
    \/ XStore(t)
    \/ XRet(t)
    \/ XGCheck(t)
    \/ XGRet(t)
    \/ XAcquire(t)
    \/ XBody(t)
    \/ XRelease(t)
    \/ XCCheck(t)
    \/ XCRead(t)
    \/ XCClose(t)
    \/ XCReset(t)

\* ---- specifications --------------------------------------------------------
Next == \E t \in Threads : Step(t)

\* src/db/connection.py: every thread calls into the module at any time
Spec == Init /\ [][Next]_vars

\* src/db/connection.py, one caller: every call returns before the next one
\* is made
SeqNext == Step(1)
SeqSpec == SeqInit /\ [][SeqNext]_vars

\* one caller of both modules
BothNext == Step(1) \/ XStep(1)
BothSpec == BothInit /\ [][BothNext]_vars

\* examples/database_example.py: every thread calls into the example
XNext == \E t \in Threads : XStep(t)
XSpec == Init /\ [][XNext]_vars


\* ---- two runs of src/db/connection.py side by side ------------------------
\* The first run lives in env, pool, config, pools and th, the second one in
\* twin.run.  The runs take turns: the first makes a step of the one caller,
\* then the runs change places and the other makes a step that brings the two
\* back in line, if it has one.

\* the program's state as one value
Snap == [env |-> env, pool |-> pool, config |-> config, pools |-> pools,
         th |-> th]

\* a state without the debug flag (DB_DEBUG, DatabaseConfig.debug) and without
\* the status lines printed under it
Erase(s) ==
    [env |-> [s.env EXCEPT !.debug = Unset],
     pool |-> s.pool,
     config |-> [s.config EXCEPT !.debug = FALSE],
     pools |-> s.pools,
     th |-> [t \in Threads |->
               [s.th[t] EXCEPT !.cfg = [@ EXCEPT !.debug = FALSE],
                               !.lines = 0]]]

\* the two runs are in the same state but for the debug flag and its output
InSync == Erase(Snap) = Erase(twin.run)

\* the environments of the two runs: DatabaseConfig() raises ValueError for a
\* missing password, an empty wallet directory or a DB_MAX_CONNECTIONS that is
\* no number, and gives an object otherwise
TwinEnvs == {e \in EnvValues :
               /\ e.user = Unset /\ e.dsn = Unset /\ e.timeout = Unset
               /\ ~IntOf(Getenv(e.min, <<>>)).raises}

\* both runs start uninitialized, in environments equal but for DB_DEBUG (or
\* equal), with callers that hold the same objects, with the debug flag on
\* and off
TwinInit ==
    /\ Start(TwinEnvs, SmallObjects)
    /\ \E d \in {e.debug : e \in EnvValues} :
         twin = [turn |-> "lead", run |-> [Snap EXCEPT !.env.debug = d]]

\* one run makes a step
Lead == twin.turn = "lead" /\ InSync /\ Step(1)

\* the runs change places
Swap ==
    /\ twin.turn = "lead" /\ ~InSync
    /\ env' = twin.run.env
    /\ pool' = twin.run.pool
    /\ config' = twin.run.config
    /\ pools' = twin.run.pools
    /\ th' = twin.run.th
    /\ UNCHANGED <<held, xpool>>
    /\ twin' = [turn |-> "follow", run |-> Snap]

\* the other run makes the same step: same operation, same arguments but for
\* the debug flag, same answers of the driver
Follow == twin.turn = "follow" /\ ~InSync /\ Step(1) /\ InSync'

\* the next round
Resync ==
    /\ twin.turn = "follow" /\ InSync
    /\ twin' = [twin EXCEPT !.turn = "lead"]
    /\ UNCHANGED <<env, held, pool, config, xpool, pools, th>>

TwinNext == Lead \/ Swap \/ Follow \/ Resync
TwinSpec == TwinInit /\ [][TwinNext]_vars

\* ---- the claims ------------------------------------------------------------
\* the one caller of SeqSpec
Caller == th[1]
Returned(op) == Caller.pc = "idle" /\ Caller.op = op
SomeClosed == \E p \in PoolIds : pools[p].st = "closed"
\* the environment resolves the user, the password, the DSN or the credential
\* path to an empty value
EnvInvalid ==
    LET c == Attrs(env)
    IN c.user = "" \/ c.password = "" \/ c.dsn = "" \/ c.wallet = ""

\* C1: as long as no pool has been closed, concurrent initialize calls have
\* constructed at most one pool, and the manager references it once the
\* constructing call has assigned it.
C1_SingleConstruction ==
    ~SomeClosed =>
        /\ Cardinality(Constructed) <= 1
        /\ (Constructed # {} /\ \A t \in Threads : th[t].pc # "i_store")
             => pool \in Constructed

\* C2: with one caller, in either module, once the manager is initialized no
\* step of an initialize or get_pool call constructs a pool or changes the
\* reference; initialize returns with the manager referencing a live pool and
\* get_pool returns the pool the manager references.
C2_InitializeOnce ==
    /\ [][(Caller.op \in {"initialize", "get_pool"} /\ pool # None)
            => (pool' = pool /\ pools' = pools)]_vars
    /\ [](Returned("initialize") /\ Caller.ret.kind = "ok" => pool \in Live)
    /\ [](Returned("get_pool") /\ Caller.ret.kind = "ok"
            => Caller.ret.val = pool /\ pool # None)
    /\ [][(Caller.op \in {"x_initialize", "x_get_pool"} /\ xpool # None)
            => (xpool' = xpool /\ pools' = pools)]_vars
    /\ [](Caller.pc = "idle" /\ Caller.op \in {"x_initialize", "x_get_pool"}
          /\ Caller.ret.kind = "ok"
            => Caller.ret.val = xpool /\ xpool \in Live)

\* get_pool returned the one pool an earlier explicit initialize had built:
\* the environment alone yields no configuration, and debug is on without a
\* status line of this call; the example's manager holds its one pool too
C2_Witness_SamePool ==
    /\ Returned("get_pool") /\ Caller.ret.kind = "ok" /\ Caller.ret.val = pool
    /\ EnvInvalid /\ config.debug /\ Caller.lines = 0
    /\ Cardinality(Constructed) = 2 /\ Live = {pool, xpool} /\ pool # xpool

\* C3: with one caller, in either module, a connection acquired by get_connection is the only
\* one checked out while the unit of work runs; when the accessor has exited,
\* by return or by exception, release has been called exactly once and no
\* connection is checked out, as before it was entered.
C3_ReleasedOnce ==
    IF Caller.acqs = 1
    THEN IF Caller.pc = "idle"
         THEN Caller.rels = 1 /\ Caller.conn = None /\ TotalOut = 0
         ELSE Caller.rels = 0 /\ TotalOut = 1
    ELSE Caller.rels = 0 /\ TotalOut = 0

\* the unit of work raised, the error propagated, the connection is back,
\* in the example after the same in connection.py
C3_Witness_RaisedAndReleased ==
    /\ Returned("x_get_connection") /\ Caller.ret.kind = "BodyError"
    /\ Caller.acqs = 1 /\ Caller.rels = 1 /\ TotalOut = 0
    /\ pool \in Live /\ xpool \in Live

\* C4 as stated: with one caller, a get_pool that follows a close ends with
\* the manager initialized on a live pool, unless the driver itself failed to
\* construct one.
C4_GetPoolAfterCloseSucceeds ==
    (Returned("get_pool") /\ SomeClosed /\ Caller.ret.kind # "ConnectionError")
        => (Caller.ret.kind = "ok" /\ pool \in Live)

\* C4 amended: a get_pool that follows a close either returns a live pool,
\* which is the one the manager now references and not a closed one, or it
\* raises the configuration or construction error of the implicit initialize
\* and the manager stays uninitialized.
C4_GetPoolAfterClose ==
    (Returned("get_pool") /\ SomeClosed) =>
        IF Caller.ret.kind = "ok"
        THEN Caller.ret.val = pool /\ pool \in Live
        ELSE Caller.ret.kind \in {"ValueError", "ConnectionError"} /\ pool = None

\* closed, then get_pool built and returned a second pool
C4_Witness_Reinitialized ==
    /\ Returned("get_pool") /\ Caller.ret.kind = "ok"
    /\ SomeClosed /\ pool \in Live /\ Caller.ret.val = pool

\* C5: with one caller, close never raises; on an uninitialized manager it
\* changes nothing and returns at once; after it the manager is uninitialized,
\* no pool is live, and no pool has had close() called on it twice.
C5_CloseIdempotent ==
    /\ [][(Caller.pc = "c_check" /\ pool = None)
            => (Caller'.pc = "idle" /\ Caller'.ret.kind = "ok"
                /\ pool' = None /\ pools' = pools /\ config' = config)]_vars
    /\ [](Returned("close")
            => Caller.ret.kind = "ok" /\ pool = None /\ Live = {})
    /\ [](\A p \in PoolIds : pools[p].closes <= 1)

\* a close that found nothing to close (no status line although debug is on)
\* after an earlier close had closed a pool
C5_Witness_SecondClose ==
    /\ Returned("close") /\ Caller.ret.kind = "ok"
    /\ config.debug /\ Caller.lines = 0
    /\ \E p \in PoolIds : pools[p].st = "closed" /\ pools[p].closes = 1
    /\ pool = None

\* C6: with one caller, at most one pool is constructed and not closed, and
\* it is the one the manager references; inside initialize, between the
\* constructor's return and the assignment of line 45, it is the one about to
\* be assigned.
C6_OneLivePool ==
    /\ Cardinality(Live) <= 1
    /\ Live # {} => IF Caller.pc = "i_store" THEN Live = {Caller.lp}
                    ELSE Live = {pool}

\* a second pool is live after the first was closed
C6_Witness_SecondPoolLive ==
    SomeClosed /\ Live = {pool} /\ Caller.pc = "idle"

\* C7: with one caller, an initialize whose pool construction failed has
\* raised ConnectionError, left the reference unset and left no pool behind.
C7_FailedInitialize ==
    /\ (Caller.pc = "idle" /\ Caller.ret.kind = "ConnectionError"
            => pool = None /\ Live = {}
               /\ Caller.op \in {"initialize", "get_pool", "get_connection"})
    /\ (Returned("initialize") /\ Caller.ret.kind = "ok" => pool \in Live)

\* initialize raised ConnectionError after storing its configuration
C7_Witness_ConstructionFailed ==
    /\ Returned("initialize") /\ Caller.ret.kind = "ConnectionError"
    /\ pool = None /\ config # NoConfig

\* C8: with one caller, loading the configuration from an environment in
\* which a required value is empty ends the call at once with ValueError and
\* changes neither the reference, the pools nor the stored configuration;
\* after a ValueError the manager is uninitialized, no pool is live, and the
\* environment is one DatabaseConfig() raises on.
C8_ConfigErrorFirst ==
    /\ [][(Caller.pc = "i_load" /\ Caller.cfg = NoConfig /\ EnvInvalid)
            => (/\ Caller'.pc = "idle"
                /\ Caller'.ret.kind =
                     IF Caller.op = "test_connection" THEN "ok" ELSE "ValueError"
                /\ Caller'.ret.val = 0
                /\ pool' = pool /\ pools' = pools /\ config' = config)]_vars
    /\ [](Caller.pc = "idle" /\ Caller.ret.kind = "ValueError"
            => pool = None /\ Live = {} /\ DatabaseConfig(env) = ValueError)

\* get_pool loaded the configuration implicitly, without DB_PASSWORD
C8_Witness_MissingPassword ==
    /\ Returned("get_pool") /\ Caller.ret.kind = "ValueError"
    /\ env.password = Unset /\ pool = None /\ Constructed = {}

\* C9: an acquisition from an open pool with every connection checked out
\* that ends without a connection ends by the expiry of a timed wait: the pool
\* it was attempted on waits for a free connection, up to its timeout, and
\* does not turn the caller away at once.
C9_AcquireWaitsForTimeout ==
    [][\A t \in Threads :
         (/\ th[t].pc = "acquire" /\ th[t].lp # None
          /\ pools[th[t].lp].st = "open"
          /\ pools[th[t].lp].out = pools[th[t].lp].max
          /\ th'[t].pc # "acquire" /\ th'[t].conn = None)
         => pools[th[t].lp].getmode = "TIMEDWAIT"]_vars

\* C10: with one caller, test_connection always returns a boolean; it returns
\* True exactly when the query gave a row whose first column is 1; and when it
\* returns, a connection it acquired has been released and none is checked
\* out.
C10_ProbeSwallows ==
    /\ [](Returned("test_connection")
            => /\ Caller.ret.kind = "ok"
               /\ Caller.ret.val \in {0, 1}
               /\ Caller.ret.val = 1 => Caller.acqs = 1
               /\ Caller.acqs = Caller.rels
               /\ TotalOut = 0)
    /\ [][(Caller.op = "test_connection" /\ Caller.pc = "release"
           /\ Caller'.pc = "idle")
            => Caller'.ret.val = (IF Caller.val = 1 /\ Caller.pend = "none"
                                  THEN 1 ELSE 0)]_vars

\* the query failed after the connection was acquired: False, and released
C10_Witness_FalseAfterAcquire ==
    /\ Returned("test_connection") /\ Caller.ret.kind = "ok"
    /\ Caller.ret.val = 0 /\ Caller.acqs = 1 /\ Caller.rels = 1

\* the thread t took a step that ended its call with exception exc (which
\* test_connection turns into the result False)
Raised(t, exc) ==
    /\ th'[t].pc = "idle"
    /\ th'[t].ret = IF th[t].op = "test_connection"
                    THEN [kind |-> "ok", val |-> 0]
                    ELSE [kind |-> exc, val |-> 0]

\* C11: under every interleaving of close with scoped acquisitions, a
\* connection a thread holds belongs to a pool that is open, and an acquire
\* made on a pool that has been closed ends with the driver's error, without a
\* connection and without touching the pools.
C11_NoConnectionOfClosedPool ==
    /\ [](\A t \in Threads :
            th[t].conn # None => pools[th[t].conn].st = "open")
    /\ [][\A t \in Threads :
            (th[t].pc = "acquire" /\ th[t].lp # None
             /\ pools[th[t].lp].st = "closed" /\ th'[t] # th[t])
            => (Raised(t, "DatabaseError") /\ th'[t].conn = None
                /\ pools' = pools)]_vars

\* one thread is about to acquire on the pool get_pool gave it while another
\* thread's close has closed that pool and returned
C11_Witness_AcquireOnClosed ==
    \E t, u \in Threads :
        /\ th[t].pc = "acquire" /\ th[t].lp # None
        /\ pools[th[t].lp].st = "closed"
        /\ th[u].pc = "idle" /\ th[u].op = "close" /\ th[u].ret.kind = "ok"

\* C13: under every interleaving, no step of the finally block of
\* get_connection constructs a pool, and its release is called on the pool
\* the connection was acquired from.
C13_ReleaseToOwnPool ==
    [][\A t \in Threads :
         (th[t].phase = "rel" /\ th'[t] # th[t])
         => /\ Constructed' = Constructed
            /\ th[t].pc = "release" => th[t].lp = th[t].conn]_vars

\* C14: with one caller, the initialize call that finds the manager
\* initialized returns at once without an exception and changes neither the
\* pool reference, the stored configuration, the pools nor the environment,
\* whatever configuration it was passed and whatever the environment holds.
C14_InitializeNoOp ==
    [][(Caller.op = "initialize" /\ Caller.pc = "i_check" /\ pool # None)
         => (/\ Caller'.pc = "idle"
             /\ Caller'.ret = [kind |-> "ok", val |-> 0]
             /\ Caller'.lines = 0
             /\ pool' = pool /\ config' = config /\ pools' = pools
             /\ env' = env)]_vars

\* initialize returned from an initialized manager: debug is on and no status
\* line was printed, in an environment that yields no default configuration
C14_Witness_ReturnedUntouched ==
    /\ Returned("initialize") /\ Caller.ret.kind = "ok"
    /\ pool \in Live /\ config.debug /\ Caller.lines = 0 /\ EnvInvalid

\* C15: under every interleaving, the step by which get_pool returns to its
\* caller returns a pool that is not None, is open and is the one the manager
\* references.
C15_GetPoolReturnsLive ==
    [][\A t \in Threads :
         (th[t].op = "get_pool" /\ th[t].pc = "g_ret" /\ th'[t].pc = "idle")
         => (/\ th'[t].ret.kind = "ok"
             /\ th'[t].ret.val # None
             /\ th'[t].ret.val = pool'
             /\ pools'[th'[t].ret.val].st = "open")]_vars

\* C16: under every interleaving of close calls, a close that found the
\* manager initialized (line 73) does not find the reference unset when it
\* reads it again (line 74), and does not call close() on a pool that has been
\* closed already.
C16_ConcurrentCloseOnce ==
    [][\A t \in Threads :
         /\ (th[t].pc = "c_read" /\ th'[t] # th[t]) => pool # None
         /\ (th[t].pc = "c_close" /\ th'[t] # th[t])
              => pools[th[t].lp].st = "open"]_vars

\* C17: under every interleaving, an acquire that raises ends the call with
\* that error at once, leaves the pools as they were and is followed neither by
\* the unit of work nor by a release; no thread has released more often than
\* it has acquired, and no pool has a negative number of connections out.
C17_FailedAcquireReleasesNothing ==
    /\ [](\A t \in Threads : th[t].rels <= th[t].acqs)
    /\ [](\A p \in PoolIds : pools[p].out >= 0)
    /\ [][\A t \in Threads :
            (th[t].pc = "acquire" /\ th'[t].pc \notin {"acquire", "body"})
            => (/\ Raised(t, IF th[t].lp = None THEN "AttributeError"
                             ELSE "DatabaseError")
                /\ th'[t].acqs = 0 /\ th'[t].rels = 0 /\ th'[t].conn = None
                /\ pools' = pools)]_vars

\* a scoped acquisition failed on a pool that has been closed: the error
\* reached the caller, nothing was acquired, nothing released
C17_Witness_FailedAcquire ==
    \E t \in Threads :
        /\ th[t].pc = "idle" /\ th[t].op = "get_connection"
        /\ th[t].ret.kind = "DatabaseError"
        /\ th[t].acqs = 0 /\ th[t].rels = 0
        /\ TotalOut = 0 /\ Live = {} /\ SomeClosed

\* C18: whenever the pool reference is set, a configuration is stored, and it
\* is the one the pool was constructed from: the pool is built from the stored
\* configuration (its size is the configuration's max_connections, whatever
\* the environment says) and the configuration is not replaced while the
\* reference stays set. The step of close that unsets the reference keeps the
\* stored configuration. A failed construction leaves the reference unset and
\* the stored configuration is the one of the failed call.
C18_PoolImpliesConfig ==
    /\ [](pool # None => (config # NoConfig /\ pools[pool].max = config.max))
    /\ [][(pool' # None /\ pool' # pool)
            => (config' = config /\ pools'[pool'].max = config.max)]_vars
    /\ [][(pool # None /\ pool' = pool) => config' = config]_vars
    /\ [][(Caller.pc = "c_reset" /\ Caller' # Caller)
            => (pool' = None /\ config' = config /\ config' # NoConfig)]_vars
    /\ [][(Caller.pc = "i_new" /\ Caller'.pc = "idle"
           /\ Caller'.ret.kind = "ConnectionError")
            => (/\ pool' = None
                /\ config' = config
                /\ config = Caller.cfg)]_vars

\* after a pool was constructed and closed, an initialize failed in the
\* construction: the reference is unset, and the stored configuration is not
\* the one the closed pool was built from (another size) nor one the
\* environment provides
C18_Witness_FailedInitKeepsConfig ==
    /\ Returned("initialize") /\ Caller.ret.kind = "ConnectionError"
    /\ SomeClosed /\ Live = {} /\ pool = None
    /\ config # NoConfig /\ EnvInvalid
    /\ \A p \in Constructed : pools[p].max # config.max

\* C12: two runs of one caller that apply the same operations, with
\* configurations and environments equal but for the debug flag, stay in step:
\* whenever one run has made a step, the other run has a step (same operation,
\* same driver answers) after which the two agree on the pool reference, the
\* pools constructed and closed, the connections checked out and the outcome
\* of every call.
\* The runs take the lead in turn, and a run that follows a call of
\* initialize(config) takes every object that differs from the leader's in
\* the debug flag at most, so each pair of such runs is compared.
C12_DebugIsObservabilityOnly ==
    (twin.turn = "follow" /\ ~InSync) => ENABLED Follow

\* the two runs, in the same environment, have closed their pools in step;
\* one was passed a configuration with debug on and printed its status line,
\* the other was passed the same with debug off and printed nothing
C12_Witness_OnlyOneReports ==
    /\ twin.turn = "lead" /\ InSync
    /\ env = twin.run.env
    /\ Returned("close") /\ Caller.ret.kind = "ok" /\ SomeClosed /\ pool = None
    /\ config.debug /\ ~twin.run.config.debug
    /\ Caller.lines = 1 /\ twin.run.th[1].lines = 0
====
